---- MODULE Spec2Model ----
(***************************************************************************)
(* Request pipeline of OfferController (route -> middleware chain ->       *)
(* handler -> service -> response), in its early revision (no middlewares, *)
(* handlers test the service result themselves) and its later revision     *)
(* (middleware chains declared per route), and the UserEntity password     *)
(* field.  Every await of a handler is one step, so that the steps of      *)
(* concurrent requests interleave the way the event loop interleaves them. *)
(***************************************************************************)
EXTENDS Integers, Sequences, FiniteSets, TLC

VARIABLES revision, offers, comments, nextOfferId, nextCommentId, files, reqs,
          entity, router, client

vars == <<revision, offers, comments, nextOfferId, nextCommentId, files, reqs,
          entity, router, client>>

store == <<offers, comments, nextOfferId, nextCommentId, files>>

\* the router's last dispatch and the browser client
front == <<router, client>>

----------------------------------------------------------------------------
(* Bounds *)

NumReqs == 2          \* requests received over a behaviour, all may overlap
MaxOfferId == 2       \* ids the offer collection hands out
InitOffers == 1       \* offers already persisted when the server starts
MaxComments == 1      \* comments created over a behaviour
NumPasswords == 3     \* distinct plaintext passwords
NumSalts == 2         \* distinct salts
NumNames == 2         \* distinct values of a string field of a User

(* Status codes used by the controller and its middlewares *)

OK == 200
CREATED == 201
NO_CONTENT == 204
BAD_REQUEST == 400
UNAUTHORIZED == 401
NOT_FOUND == 404
INTERNAL_SERVER_ERROR == 500
NOT_IMPLEMENTED == 501

(* Values *)

Null == 0                     \* an absent (null / undefined) value
Malformed == 0 - 1            \* an :offerId that is no object id
OfferIds == 1..MaxOfferId     \* well-formed object ids
ParamIds == OfferIds \cup {Malformed}
Slots == 1..NumReqs

Revisions == {"early", "later"}

----------------------------------------------------------------------------
(* Route table: OfferController.constructor *)

PrivateRoute == "PrivateRouteMiddleware"
ValidateObjectId == "ValidateObjectIdMiddleware"
ValidateDto == "ValidateDtoMiddleware"
DocumentExists == "DocumentExistsMiddleware"
UploadFile == "UploadFileMiddleware"
UploadFiles == "UploadFilesMiddleware"
Handler == "handler"

EarlyRoutes ==
  {"show", "index", "create", "delete", "update", "getComments",
   "findPremium", "findFavorite"}

LaterRoutes == EarlyRoutes \cup {"uploadImage", "uploadImages"}

RouteNames(rev) == IF rev = "early" THEN EarlyRoutes ELSE LaterRoutes

\* routes whose path carries :offerId
OfferIdRoutes ==
  {"show", "delete", "update", "getComments", "uploadImage", "uploadImages"}

\* routes whose request carries a DTO body
BodyRoutes == {"create", "update"}

\* POST / declared without its private-route gate
CreateMiddlewaresUngated == <<ValidateDto>>

CreateMiddlewares == <<PrivateRoute, ValidateDto>>
ShowMiddlewares == <<ValidateObjectId, DocumentExists>>
DeleteMiddlewares == <<PrivateRoute, ValidateObjectId, DocumentExists>>
\* PATCH /:offerId declared with the existence lookup ahead of the body
\* validation
UpdateMiddlewaresSwapped ==
  <<PrivateRoute, ValidateObjectId, DocumentExists, ValidateDto>>

UpdateMiddlewares ==
  <<PrivateRoute, ValidateObjectId, ValidateDto, DocumentExists>>
GetCommentsMiddlewares == <<ValidateObjectId, DocumentExists>>
\* POST /:offerId/previewImage declared with the upload ahead of the
\* object-id validation
UploadImageMiddlewaresSwapped == <<PrivateRoute, UploadFile, ValidateObjectId>>

UploadImageMiddlewares == <<PrivateRoute, ValidateObjectId, UploadFile>>
UploadImagesMiddlewares == <<PrivateRoute, ValidateObjectId, UploadFiles>>

Middlewares(rev, route) ==
  IF rev = "early" THEN << >>
  ELSE CASE route = "create" -> CreateMiddlewares
         [] route = "show" -> ShowMiddlewares
         [] route = "delete" -> DeleteMiddlewares
         [] route = "update" -> UpdateMiddlewares
         [] route = "getComments" -> GetCommentsMiddlewares
         [] route = "uploadImage" -> UploadImageMiddlewares
         [] route = "uploadImages" -> UploadImagesMiddlewares
         [] OTHER -> << >>

----------------------------------------------------------------------------
(* Requests *)

Idle ==
  [pc |-> "idle", route |-> "none", user |-> FALSE, offerId |-> Null,
   valid |-> TRUE, step |-> 0, status |-> 0, result |-> Null,
   created |-> Null, file |-> Null, items |-> {}, ran |-> << >>,
   calls |-> << >>]

\* the router hands the request to the first middleware of the route, or to
\* the handler when the route declares none
Enter(q) ==
  IF Middlewares(revision, q.route) = << >>
  THEN [q EXCEPT !.pc = "handler", !.step = 1, !.ran = <<Handler>>]
  ELSE [q EXCEPT !.pc = "chain", !.step = 1]

Current(q) == Middlewares(revision, q.route)[q.step]

AtMiddleware(q, mw) ==
  /\ q.pc = "chain"
  /\ Current(q) = mw

\* next(): the following middleware, or the handler after the last one
Pass(q) ==
  IF q.step = Len(Middlewares(revision, q.route))
  THEN [q EXCEPT !.pc = "handler", !.step = 1,
                 !.ran = Append(Append(@, Current(q)), Handler)]
  ELSE [q EXCEPT !.step = @ + 1, !.ran = Append(@, Current(q))]

\* next(new HttpError(code, ...)): the chain ends with an error response
Reject(q, code) ==
  [q EXCEPT !.pc = "done", !.status = code, !.ran = Append(@, Current(q))]

\* a service call of the handler returned res and the handler runs on to its
\* next await
Step(q, call, res) ==
  [q EXCEPT !.step = @ + 1, !.result = res, !.calls = Append(@, call)]

\* a service call returned res and the handler sends its response, built
\* from res, with status code (this.ok, this.created, this.noContent,
\* this.send)
Send(q, call, res, code) ==
  [q EXCEPT !.pc = "done", !.status = code, !.result = res,
            !.calls = Append(@, call)]

\* a service call returned res and the handler throws HttpError(code)
Throw(q, call, res, code) ==
  [q EXCEPT !.pc = "done", !.status = code, !.result = res,
            !.calls = Append(@, call)]

----------------------------------------------------------------------------
(* Services *)

exists(id) == id \in offers

findById(id) == IF id \in offers THEN id ELSE Null

findByOfferId(id) == {c \in comments : c.offerId = id}

----------------------------------------------------------------------------
(* Initial state *)

\* no UserEntity constructed yet; args is the argument pair of the last
\* setPassword call
\* the payload of a thunk that returned no offer
NoResult == [id |-> Null]

\* a thunk that was not dispatched: no call issued, nothing returned
IdleThunk ==
  [pc |-> "idle", calls |-> << >>, outcomes |-> << >>, data |-> Null,
   result |-> NoResult]

\* the browser client on start: no token stored, no thunk dispatched; last
\* names the thunk that took the last step
NoClient ==
  [token |-> Null, location |-> [route |-> "start", id |-> Null],
   last |-> "none",
   login |-> IdleThunk, logout |-> IdleThunk, status |-> IdleThunk,
   post |-> IdleThunk]

\* nothing dispatched yet
NoDispatch == [method |-> "none", path |-> << >>, handler |-> "none"]

NoEntity ==
  [constructed |-> FALSE, name |-> Null, email |-> Null, avatarPath |-> Null,
   userType |-> Null, password |-> Null, args |-> <<Null, Null>>]

Init ==
  /\ revision \in Revisions
  /\ \E n \in 0..InitOffers :
       /\ offers = 1..n
       /\ nextOfferId = n + 1
  /\ comments = {}
  /\ nextCommentId = 1
  /\ files = {}
  /\ reqs = [r \in Slots |-> Idle]
  /\ entity = NoEntity
  /\ router = NoDispatch
  /\ client = NoClient

----------------------------------------------------------------------------
(* Arrival of a request *)

Receive(r) ==
  /\ reqs[r].pc = "idle"
  /\ \E route \in RouteNames(revision), user \in BOOLEAN,
        id \in ParamIds, valid \in BOOLEAN :
       /\ route \notin OfferIdRoutes => id = Malformed
       /\ route \notin BodyRoutes => valid
       /\ reqs' = [reqs EXCEPT ![r] =
            Enter([Idle EXCEPT !.route = route, !.user = user,
                     !.offerId = IF route \in OfferIdRoutes THEN id ELSE Null,
                     !.valid = valid])]
  /\ UNCHANGED <<revision, store, entity, front>>

----------------------------------------------------------------------------
(* Middlewares *)

PrivateRouteMiddleware(r) ==
  LET q == reqs[r] IN
  /\ AtMiddleware(q, PrivateRoute)
  /\ reqs' = [reqs EXCEPT ![r] =
       IF q.user THEN Pass(q) ELSE Reject(q, UNAUTHORIZED)]
  /\ UNCHANGED <<revision, store, entity, front>>

ValidateObjectIdMiddleware(r) ==
  LET q == reqs[r] IN
  /\ AtMiddleware(q, ValidateObjectId)
  /\ reqs' = [reqs EXCEPT ![r] =
       IF q.offerId \in OfferIds THEN Pass(q) ELSE Reject(q, BAD_REQUEST)]
  /\ UNCHANGED <<revision, store, entity, front>>

ValidateDtoMiddleware(r) ==
  LET q == reqs[r] IN
  /\ AtMiddleware(q, ValidateDto)
  /\ reqs' = [reqs EXCEPT ![r] =
       IF q.valid THEN Pass(q) ELSE Reject(q, BAD_REQUEST)]
  /\ UNCHANGED <<revision, store, entity, front>>

DocumentExistsMiddleware(r) ==
  LET q == reqs[r]
      p == [q EXCEPT !.calls = Append(@, "exists")] IN
  /\ AtMiddleware(q, DocumentExists)
  /\ reqs' = [reqs EXCEPT ![r] =
       IF exists(q.offerId) THEN Pass(p) ELSE Reject(p, NOT_FOUND)]
  /\ UNCHANGED <<revision, store, entity, front>>

\* UploadFileMiddleware and UploadFilesMiddleware: the upload is written to
\* the upload directory under a fresh name, attached to the request
UploadMiddleware(r) ==
  LET q == reqs[r] IN
  /\ q.pc = "chain"
  /\ Current(q) \in {UploadFile, UploadFiles}
  /\ files' = files \cup {r}
  /\ reqs' = [reqs EXCEPT ![r] = Pass([q EXCEPT !.file = r])]
  /\ UNCHANGED <<revision, offers, comments, nextOfferId, nextCommentId,
                 entity, front>>

----------------------------------------------------------------------------
(* Handlers of the later revision.  An action is one service call together *)
(* with the code that follows it up to the next await or the response.     *)

AtHandler(q, route, rev, step) ==
  /\ q.pc = "handler"
  /\ q.route = route
  /\ revision \in rev
  /\ q.step = step

show(r) ==
  LET q == reqs[r] IN
  /\ AtHandler(q, "show", {"later"}, 1)
  /\ reqs' = [reqs EXCEPT ![r] = Send(q, "findById", findById(q.offerId), OK)]
  /\ UNCHANGED <<revision, store, entity, front>>

index(r) ==
  LET q == reqs[r] IN
  /\ AtHandler(q, "index", Revisions, 1)
  /\ reqs' = [reqs EXCEPT ![r] =
       [Send(q, "find", Null, OK) EXCEPT !.items = offers]]
  /\ UNCHANGED <<revision, store, entity, front>>

create(r) ==
  LET q == reqs[r] IN
  /\ q.pc = "handler"
  /\ q.route = "create"
  /\ \/ /\ q.step = 1
        /\ nextOfferId <= MaxOfferId
        /\ offers' = offers \cup {nextOfferId}
        /\ nextOfferId' = nextOfferId + 1
        /\ reqs' = [reqs EXCEPT ![r] =
             [Step(q, "create", nextOfferId) EXCEPT !.created = nextOfferId]]
     \/ /\ q.step = 2
        /\ reqs' = [reqs EXCEPT ![r] =
             Send(q, "findById", findById(q.created), CREATED)]
        /\ UNCHANGED <<offers, nextOfferId>>
  /\ UNCHANGED <<revision, comments, nextCommentId, files, entity, front>>

\* delete without the cascade: the comments of the offer are left in place
deleteNoCascade(r) ==
  LET q == reqs[r] IN
  /\ q.pc = "handler"
  /\ q.route = "delete"
  /\ revision = "later"
  /\ \/ /\ q.step = 1
        /\ offers' = offers \ {q.offerId}
        /\ reqs' = [reqs EXCEPT ![r] =
             Step(q, "deleteById", findById(q.offerId))]
     \/ /\ q.step = 2
        /\ reqs' = [reqs EXCEPT ![r] =
             Send(q, "deleteByOfferId", q.result, NO_CONTENT)]
        /\ UNCHANGED offers
  /\ UNCHANGED <<revision, comments, nextOfferId, nextCommentId, files,
                 entity, front>>

delete(r) ==
  LET q == reqs[r] IN
  /\ q.pc = "handler"
  /\ q.route = "delete"
  /\ revision = "later"
  /\ \/ /\ q.step = 1
        /\ offers' = offers \ {q.offerId}
        /\ reqs' = [reqs EXCEPT ![r] =
             Step(q, "deleteById", findById(q.offerId))]
        /\ UNCHANGED comments
     \/ /\ q.step = 2
        /\ comments' = comments \ findByOfferId(q.offerId)
        /\ reqs' = [reqs EXCEPT ![r] =
             Send(q, "deleteByOfferId", q.result, NO_CONTENT)]
        /\ UNCHANGED offers
  /\ UNCHANGED <<revision, nextOfferId, nextCommentId, files, entity, front>>

update(r) ==
  LET q == reqs[r] IN
  /\ AtHandler(q, "update", {"later"}, 1)
  /\ reqs' = [reqs EXCEPT ![r] =
       Send(q, "updateById", findById(q.offerId), OK)]
  /\ UNCHANGED <<revision, store, entity, front>>

getComments(r) ==
  LET q == reqs[r] IN
  /\ AtHandler(q, "getComments", {"later"}, 1)
  /\ reqs' = [reqs EXCEPT ![r] =
       [Send(q, "findByOfferId", Null, OK)
          EXCEPT !.items = findByOfferId(q.offerId)]]
  /\ UNCHANGED <<revision, store, entity, front>>

findPremium(r) ==
  LET q == reqs[r] IN
  /\ AtHandler(q, "findPremium", Revisions, 1)
  /\ reqs' = [reqs EXCEPT ![r] =
       [Send(q, "findPremium", Null, OK) EXCEPT !.items = offers]]
  /\ UNCHANGED <<revision, store, entity, front>>

findFavorite(r) ==
  LET q == reqs[r] IN
  /\ AtHandler(q, "findFavorite", Revisions, 1)
  /\ reqs' = [reqs EXCEPT ![r] =
       [Send(q, "findFavorite", Null, OK) EXCEPT !.items = offers]]
  /\ UNCHANGED <<revision, store, entity, front>>

uploadImage(r) ==
  LET q == reqs[r] IN
  /\ AtHandler(q, "uploadImage", {"later"}, 1)
  /\ reqs' = [reqs EXCEPT ![r] = Send(q, "updateById", q.file, CREATED)]
  /\ UNCHANGED <<revision, store, entity, front>>

uploadImages(r) ==
  LET q == reqs[r] IN
  /\ AtHandler(q, "uploadImages", {"later"}, 1)
  /\ reqs' = [reqs EXCEPT ![r] = Send(q, "updateById", q.file, CREATED)]
  /\ UNCHANGED <<revision, store, entity, front>>

----------------------------------------------------------------------------
(* Handlers of the early revision that differ from the later one: they     *)
(* test the service result themselves.                                     *)

showEarly(r) ==
  LET q == reqs[r]
      offer == findById(q.offerId) IN
  /\ AtHandler(q, "show", {"early"}, 1)
  /\ reqs' = [reqs EXCEPT ![r] =
       IF offer = Null
       THEN Throw(q, "findById", offer, NOT_IMPLEMENTED)
       ELSE Send(q, "findById", offer, OK)]
  /\ UNCHANGED <<revision, store, entity, front>>

deleteEarly(r) ==
  LET q == reqs[r]
      offer == findById(q.offerId) IN
  /\ q.pc = "handler"
  /\ q.route = "delete"
  /\ revision = "early"
  /\ \/ /\ q.step = 1
        /\ offers' = offers \ {q.offerId}
        /\ reqs' = [reqs EXCEPT ![r] =
             IF offer = Null
             THEN Throw(q, "deleteById", offer, NOT_FOUND)
             ELSE Step(q, "deleteById", offer)]
        /\ UNCHANGED comments
     \/ /\ q.step = 2
        /\ comments' = comments \ findByOfferId(q.offerId)
        /\ reqs' = [reqs EXCEPT ![r] =
             Send(q, "deleteByOfferId", q.result, NO_CONTENT)]
        /\ UNCHANGED offers
  /\ UNCHANGED <<revision, nextOfferId, nextCommentId, files, entity, front>>

updateEarly(r) ==
  LET q == reqs[r]
      updatedOffer == findById(q.offerId) IN
  /\ AtHandler(q, "update", {"early"}, 1)
  /\ reqs' = [reqs EXCEPT ![r] =
       IF updatedOffer = Null
       THEN Throw(q, "updateById", updatedOffer, NOT_FOUND)
       ELSE Send(q, "updateById", updatedOffer, OK)]
  /\ UNCHANGED <<revision, store, entity, front>>

getCommentsEarly(r) ==
  LET q == reqs[r] IN
  /\ q.pc = "handler"
  /\ q.route = "getComments"
  /\ revision = "early"
  /\ \/ /\ q.step = 1
        /\ reqs' = [reqs EXCEPT ![r] =
             IF ~exists(q.offerId)
             THEN Throw(q, "exists", Null, NOT_FOUND)
             ELSE Step(q, "exists", q.offerId)]
     \/ /\ q.step = 2
        /\ reqs' = [reqs EXCEPT ![r] =
             [Send(q, "findByOfferId", q.result, OK)
                EXCEPT !.items = findByOfferId(q.offerId)]]
  /\ UNCHANGED <<revision, store, entity, front>>

----------------------------------------------------------------------------
(* Environment *)

\* the service calls a handler makes, in order
HandlerCalls(rev, route) ==
  CASE route = "show" -> <<"findById">>
    [] route = "index" -> <<"find">>
    [] route = "create" -> <<"create", "findById">>
    [] route = "delete" -> <<"deleteById", "deleteByOfferId">>
    [] route = "update" -> <<"updateById">>
    [] route = "getComments" ->
         IF rev = "early" THEN <<"exists", "findByOfferId">>
         ELSE <<"findByOfferId">>
    [] route = "findPremium" -> <<"findPremium">>
    [] route = "findFavorite" -> <<"findFavorite">>
    [] route = "uploadImage" -> <<"updateById">>
    [] route = "uploadImages" -> <<"updateById">>

\* the awaited service call rejects (a database error): the rejection
\* propagates out of the handler or middleware and the request ends with a
\* 500 response; the call changed nothing
ServiceFails(r) ==
  LET q == reqs[r] IN
  /\ \/ AtMiddleware(q, DocumentExists)
     \/ q.pc = "handler"
  /\ reqs' = [reqs EXCEPT ![r] =
       IF q.pc = "chain"
       THEN [Reject(q, INTERNAL_SERVER_ERROR)
               EXCEPT !.calls = Append(@, "exists")]
       ELSE [q EXCEPT !.pc = "done", !.status = INTERNAL_SERVER_ERROR,
               !.calls = Append(@, HandlerCalls(revision, q.route)[q.step])]]
  /\ UNCHANGED <<revision, store, entity, front>>

\* CommentController creates a comment on an offer that exists
CreateComment(o) ==
  /\ o \in offers
  /\ nextCommentId <= MaxComments
  /\ comments' = comments \cup {[id |-> nextCommentId, offerId |-> o]}
  /\ nextCommentId' = nextCommentId + 1
  /\ UNCHANGED <<revision, offers, nextOfferId, files, reqs, entity, front>>

----------------------------------------------------------------------------

(* UserEntity *)

Passwords == 1..NumPasswords
Salts == 1..NumSalts
Names == 1..NumNames

\* createSHA256(line, salt): a keyed digest, taken as one-way and free of
\* collisions; a digest is no plaintext
createSHA256(line, salt) == NumPasswords + (line - 1) * NumSalts + salt

\* the User handed to the constructor; the DTO it is built from carries the
\* plaintext password
Users ==
  [name : Names, email : Names, avatarPath : Names, userType : {1, 2},
   password : Passwords]

UserEntity(data) ==
  /\ ~entity.constructed
  /\ entity' = [NoEntity EXCEPT !.constructed = TRUE, !.name = data.name,
                  !.email = data.email, !.avatarPath = data.avatarPath,
                  !.userType = data.userType]
  /\ UNCHANGED <<revision, store, reqs, front>>

\* setPassword that stores its argument as it came
setPasswordPlain(password, salt) ==
  /\ entity.constructed
  /\ entity' = [entity EXCEPT !.password = password,
                  !.args = <<password, salt>>]
  /\ UNCHANGED <<revision, store, reqs, front>>

setPassword(password, salt) ==
  /\ entity.constructed
  /\ entity' = [entity EXCEPT !.password = createSHA256(password, salt),
                  !.args = <<password, salt>>]
  /\ UNCHANGED <<revision, store, reqs, front>>

getPassword == entity.password

InitUser ==
  /\ revision = "later"
  /\ offers = {}
  /\ nextOfferId = 1
  /\ comments = {}
  /\ nextCommentId = 1
  /\ files = {}
  /\ reqs = [r \in Slots |-> Idle]
  /\ entity = NoEntity
  /\ router = NoDispatch
  /\ client = NoClient

NextUser ==
  \/ \E data \in Users : UserEntity(data)
  \/ \E password \in Passwords, salt \in Salts : setPassword(password, salt)

SpecUser == InitUser /\ [][NextUser]_vars

(* Client thunks.  A thunk is pending from its dispatch until its payload  *)
(* creator returns (fulfilled) or throws (rejected); each awaited HTTP     *)
(* call is answered in a step of its own.                                  *)

NumTokens == 2        \* distinct tokens the server hands out

Tokens == 1..NumTokens

NoAuth == UNAUTHORIZED

\* what a failed call is rejected with: an error status, or no response at
\* all (Null)
ErrorStatuses == {Null, BAD_REQUEST, NoAuth, INTERNAL_SERVER_ERROR}

Succeeded(outcome) == outcome \in {OK, CREATED}

Root == [route |-> "root", id |-> Null]

Property(id) == [route |-> "property", id |-> id]

\* the created offer as the client keeps it, built from the DTO received
adaptOfferToClient(dto) == [id |-> dto]

\* the thunk issues an HTTP call and awaits it
Issue(t, call) == [t EXCEPT !.pc = "pending", !.calls = Append(@, call)]

\* the awaited call returned with outcome
Answer(t, outcome) == [t EXCEPT !.outcomes = Append(@, outcome)]

Fulfil(t, result) == [t EXCEPT !.pc = "fulfilled", !.result = result]

RejectThunk(t) == [t EXCEPT !.pc = "rejected"]

Settled(t) == t.pc \in {"idle", "fulfilled", "rejected"}

Backend == <<revision, store, reqs, entity, router>>

\* fetchUserStatus that drops the token on every failure
fetchUserStatusDropsAlways ==
  LET t == client.status IN
  \/ /\ Settled(t)
     /\ client' = [client EXCEPT
               !.last = "fetchUserStatus",
               !.status = Issue(IdleThunk, "getLogin")]
     /\ UNCHANGED Backend
  \/ /\ t.pc = "pending"
     /\ \/ client' = [client EXCEPT
               !.last = "fetchUserStatus",
               !.status = Fulfil(Answer(t, OK), NoResult)]
        \/ \E code \in ErrorStatuses :
             client' = [client EXCEPT
               !.last = "fetchUserStatus",
               !.token = Null,
               !.status = RejectThunk(Answer(t, code))]
     /\ UNCHANGED Backend

fetchUserStatus ==
  LET t == client.status IN
  \/ /\ Settled(t)
     /\ client' = [client EXCEPT
               !.last = "fetchUserStatus",
               !.status = Issue(IdleThunk, "getLogin")]
     /\ UNCHANGED Backend
  \/ /\ t.pc = "pending"
     /\ \/ client' = [client EXCEPT
               !.last = "fetchUserStatus",
               !.status = Fulfil(Answer(t, OK), NoResult)]
        \/ \E code \in ErrorStatuses :
             client' = [client EXCEPT
               !.last = "fetchUserStatus",
               !.token = IF code = NoAuth THEN Null ELSE @,
               !.status = RejectThunk(Answer(t, code))]
     /\ UNCHANGED Backend

loginUser ==
  LET t == client.login IN
  \/ /\ Settled(t)
     /\ client' = [client EXCEPT
               !.last = "loginUser",
               !.login = Issue(IdleThunk, "postLogin")]
     /\ UNCHANGED Backend
  \/ /\ t.pc = "pending"
     /\ \/ \E token \in Tokens :
             client' = [client EXCEPT
               !.last = "loginUser",
               !.token = token,
               !.location = Root,
               !.login = Fulfil([Answer(t, OK) EXCEPT !.data = token],
                               NoResult)]
        \/ \E code \in ErrorStatuses :
             client' = [client EXCEPT
               !.last = "loginUser",
               !.login = RejectThunk(Answer(t, code))]
     /\ UNCHANGED Backend

logoutUser ==
  /\ Settled(client.logout)
  /\ client' = [client EXCEPT
               !.last = "logoutUser",
               !.token = Null,
                  !.logout = Fulfil(IdleThunk, NoResult)]
  /\ UNCHANGED Backend

PostOfferCalls == <<"postOffer", "previewImage", "offerImages">>

\* postOffer that goes on to the images upload when the preview upload failed
postOfferSkipsFailure ==
  LET t == client.post IN
  \/ /\ Settled(t)
     /\ client' = [client EXCEPT
               !.last = "postOffer",
               !.post = Issue(IdleThunk, "postOffer")]
     /\ UNCHANGED Backend
  \/ /\ t.pc = "pending"
     /\ t.calls = <<"postOffer">>
     /\ \/ \E id \in OfferIds :
             client' = [client EXCEPT
               !.last = "postOffer",
               !.location = Property(id),
               !.post = Issue([Answer(t, CREATED) EXCEPT !.data = id],
                              "previewImage")]
        \/ client' = [client EXCEPT
               !.last = "postOffer",
               !.post = RejectThunk(Answer(t, CREATED))]
        \/ \E code \in ErrorStatuses :
             client' = [client EXCEPT
               !.last = "postOffer",
               !.post = RejectThunk(Answer(t, code))]
     /\ UNCHANGED Backend
  \/ /\ t.pc = "pending"
     /\ t.calls = <<"postOffer", "previewImage">>
     /\ \E code \in ErrorStatuses \cup {CREATED} :
          client' = [client EXCEPT
               !.last = "postOffer",
               !.post = Issue(Answer(t, code), "offerImages")]
     /\ UNCHANGED Backend
  \/ /\ t.pc = "pending"
     /\ t.calls = PostOfferCalls
     /\ \/ client' = [client EXCEPT
               !.last = "postOffer",
               !.post = Fulfil(Answer(t, CREATED), adaptOfferToClient(t.data))]
        \/ \E code \in ErrorStatuses :
             client' = [client EXCEPT
               !.last = "postOffer",
               !.post = RejectThunk(Answer(t, code))]
     /\ UNCHANGED Backend

\* postOffer: the create call; then, with the created offer, the upload of
\* the preview image and after it the upload of the offer images.  A create
\* call answered with a null body throws at data.id: the thunk rejects.
postOffer ==
  LET t == client.post IN
  \/ /\ Settled(t)
     /\ client' = [client EXCEPT
               !.last = "postOffer",
               !.post = Issue(IdleThunk, "postOffer")]
     /\ UNCHANGED Backend
  \/ /\ t.pc = "pending"
     /\ t.calls = <<"postOffer">>
     /\ \/ \E id \in OfferIds :
             client' = [client EXCEPT
               !.last = "postOffer",
               !.location = Property(id),
               !.post = Issue([Answer(t, CREATED) EXCEPT !.data = id],
                              "previewImage")]
        \/ client' = [client EXCEPT
               !.last = "postOffer",
               !.post = RejectThunk(Answer(t, CREATED))]
        \/ \E code \in ErrorStatuses :
             client' = [client EXCEPT
               !.last = "postOffer",
               !.post = RejectThunk(Answer(t, code))]
     /\ UNCHANGED Backend
  \/ /\ t.pc = "pending"
     /\ t.calls = <<"postOffer", "previewImage">>
     /\ \/ client' = [client EXCEPT
               !.last = "postOffer",
               !.post = Issue(Answer(t, CREATED), "offerImages")]
        \/ \E code \in ErrorStatuses :
             client' = [client EXCEPT
               !.last = "postOffer",
               !.post = RejectThunk(Answer(t, code))]
     /\ UNCHANGED Backend
  \/ /\ t.pc = "pending"
     /\ t.calls = PostOfferCalls
     /\ \/ client' = [client EXCEPT
               !.last = "postOffer",
               !.post = Fulfil(Answer(t, CREATED), adaptOfferToClient(t.data))]
        \/ \E code \in ErrorStatuses :
             client' = [client EXCEPT
               !.last = "postOffer",
               !.post = RejectThunk(Answer(t, code))]
     /\ UNCHANGED Backend

InitClient ==
  /\ revision = "later"
  /\ offers = {}
  /\ nextOfferId = 1
  /\ comments = {}
  /\ nextCommentId = 1
  /\ files = {}
  /\ reqs = [r \in Slots |-> Idle]
  /\ entity = NoEntity
  /\ router = NoDispatch
  /\ client = NoClient

NextClient ==
  \/ fetchUserStatus
  \/ loginUser
  \/ logoutUser
  \/ postOffer

SpecClient == InitClient /\ [][NextClient]_vars

----------------------------------------------------------------------------
(* Routing: the routes of a controller are tried in the order in which    *)
(* addRoute registered them, and the first whose method and path match    *)
(* takes the request.                                                      *)

MaxSegments == 2      \* segments of a request path below /offers

Methods == {"GET", "POST", "DELETE", "PATCH"}

Cities == {"Paris", "Amsterdam"}

\* what a path segment can be: a literal of some route, a city, an object id
Segments ==
  {"favorite", "premium", "comments", "previewImage", "offerImages", "o1"}
    \cup Cities

Paths == UNION {[1..n -> Segments] : n \in 0..MaxSegments}

IsParam(seg) == seg \in {":offerId", ":city"}

Route(path, method, handler) ==
  [path |-> path, method |-> method, handler |-> handler]

EarlyRouteTable ==
  << Route(<<":offerId">>, "GET", "show"),
     Route(<< >>, "GET", "index"),
     Route(<< >>, "POST", "create"),
     Route(<<":offerId">>, "DELETE", "delete"),
     Route(<<":offerId">>, "PATCH", "update"),
     Route(<<":offerId", "comments">>, "GET", "getComments"),
     Route(<<"premium", ":city">>, "GET", "findPremium"),
     Route(<<"favorite">>, "GET", "findFavorite") >>

LaterRouteTable ==
  << Route(<< >>, "GET", "index"),
     Route(<< >>, "POST", "create"),
     Route(<<"favorite">>, "GET", "findFavorite"),
     Route(<<":offerId">>, "GET", "show"),
     Route(<<":offerId">>, "DELETE", "delete"),
     Route(<<":offerId">>, "PATCH", "update"),
     Route(<<":offerId", "comments">>, "GET", "getComments"),
     Route(<<":offerId", "previewImage">>, "POST", "uploadImage"),
     Route(<<":offerId", "offerImages">>, "POST", "uploadImages"),
     Route(<<"premium", ":city">>, "GET", "findPremium") >>

RouteTable(rev) == IF rev = "early" THEN EarlyRouteTable ELSE LaterRouteTable

Matches(route, method, path) ==
  /\ route.method = method
  /\ Len(route.path) = Len(path)
  /\ \A i \in 1..Len(path) : IsParam(route.path[i]) \/ route.path[i] = path[i]

\* the handler of the first registered route that matches, "none" without one
Dispatch(rev, method, path) ==
  LET table == RouteTable(rev)
      hits == {i \in 1..Len(table) : Matches(table[i], method, path)}
  IN IF hits = {} THEN "none"
     ELSE table[CHOOSE i \in hits : \A j \in hits : i <= j].handler

Dispatched(method, path) ==
  /\ router' = [method |-> method, path |-> path,
                handler |-> Dispatch(revision, method, path)]
  /\ UNCHANGED <<revision, store, reqs, entity, client>>

InitRouter ==
  /\ revision \in Revisions
  /\ offers = {}
  /\ nextOfferId = 1
  /\ comments = {}
  /\ nextCommentId = 1
  /\ files = {}
  /\ reqs = [r \in Slots |-> Idle]
  /\ entity = NoEntity
  /\ router = NoDispatch
  /\ client = NoClient

NextRouter == \E method \in Methods, path \in Paths : Dispatched(method, path)

SpecRouter == InitRouter /\ [][NextRouter]_vars

----------------------------------------------------------------------------

Next ==
  \/ \E r \in Slots : Receive(r)
  \/ \E r \in Slots : PrivateRouteMiddleware(r)
  \/ \E r \in Slots : ValidateObjectIdMiddleware(r)
  \/ \E r \in Slots : ValidateDtoMiddleware(r)
  \/ \E r \in Slots : DocumentExistsMiddleware(r)
  \/ \E r \in Slots : UploadMiddleware(r)
  \/ \E r \in Slots : show(r)
  \/ \E r \in Slots : index(r)
  \/ \E r \in Slots : create(r)
  \/ \E r \in Slots : delete(r)
  \/ \E r \in Slots : update(r)
  \/ \E r \in Slots : getComments(r)
  \/ \E r \in Slots : findPremium(r)
  \/ \E r \in Slots : findFavorite(r)
  \/ \E r \in Slots : uploadImage(r)
  \/ \E r \in Slots : uploadImages(r)
  \/ \E r \in Slots : showEarly(r)
  \/ \E r \in Slots : deleteEarly(r)
  \/ \E r \in Slots : updateEarly(r)
  \/ \E r \in Slots : getCommentsEarly(r)
  \/ \E r \in Slots : ServiceFails(r)
  \/ \E o \in OfferIds : CreateComment(o)

Spec == Init /\ [][Next]_vars

----------------------------------------------------------------------------
(* Properties *)

InSeq(x, seq) == \E i \in 1..Len(seq) : seq[i] = x

IsPrefix(s, t) ==
  /\ Len(s) <= Len(t)
  /\ \A i \in 1..Len(s) : s[i] = t[i]

Done(q) == q.pc = "done"

\* C1: in the later revision a POST /offers request without an authenticated
\* user never gets past the private-route gate, whatever its body: it makes
\* no service call (offerService.create is not called, nothing is persisted
\* for it), its handler does not run, and its response is 401.
UnauthenticatedCreateRejected ==
  \A r \in Slots :
    LET q == reqs[r] IN
    (revision = "later" /\ q.route = "create" /\ ~q.user) =>
      /\ q.calls = << >>
      /\ q.created = Null
      /\ ~InSeq(Handler, q.ran)
      /\ ~InSeq(ValidateDto, q.ran)
      /\ q.pc \in {"chain", "done"}
      /\ Done(q) => q.status = UNAUTHORIZED /\ q.ran = <<PrivateRoute>>

\* C1 witness: an unauthenticated POST /offers with a valid body was answered
\* with 401.
UnauthenticatedCreateAnswered ==
  \E r \in Slots :
    /\ revision = "later"
    /\ reqs[r].route = "create"
    /\ ~reqs[r].user
    /\ reqs[r].valid
    /\ Done(reqs[r])
    /\ reqs[r].status = UNAUTHORIZED

\* C2: in the later revision an authenticated, otherwise valid request on a
\* route with :offerId whose well-formed id names an offer that never
\* existed makes no updateById or deleteById call, stores no uploaded file,
\* and is answered with 404 (unless the lookup itself failed).
NonexistentOfferRejected ==
  \A r \in Slots :
    LET q == reqs[r] IN
    (/\ revision = "later"
     /\ q.route \in OfferIdRoutes
     /\ q.user
     /\ q.valid
     /\ q.offerId \in OfferIds
     /\ q.offerId >= nextOfferId) =>
      /\ q.file = Null
      /\ ~InSeq("updateById", q.calls)
      /\ ~InSeq("deleteById", q.calls)
      /\ (Done(q) /\ q.status # INTERNAL_SERVER_ERROR) => q.status = NOT_FOUND

\* C3: in the later revision an authenticated request on a route with
\* :offerId whose id is malformed is answered with 400 by the object-id
\* validator; its handler never runs, it makes no service call (no existence
\* lookup either) and no file is stored for it.
MalformedIdRejected ==
  \A r \in Slots :
    LET q == reqs[r] IN
    (/\ revision = "later"
     /\ q.route \in OfferIdRoutes
     /\ q.user
     /\ q.offerId = Malformed) =>
      /\ q.calls = << >>
      /\ q.file = Null
      /\ r \notin files
      /\ ~InSeq(Handler, q.ran)
      /\ ~InSeq(DocumentExists, q.ran)
      /\ q.pc \in {"chain", "done"}
      /\ Done(q) =>
           /\ q.status = BAD_REQUEST
           /\ q.ran[Len(q.ran)] = ValidateObjectId

\* C3 witness: an authenticated preview upload with a malformed id was
\* answered with 400.
MalformedUploadAnswered ==
  \E r \in Slots :
    /\ revision = "later"
    /\ reqs[r].route = "uploadImage"
    /\ reqs[r].user
    /\ reqs[r].offerId = Malformed
    /\ Done(reqs[r])
    /\ reqs[r].status = BAD_REQUEST

\* C4: once a DELETE /offers/:offerId request has been answered with its
\* success response, no persisted comment references that offer id:
\* findByOfferId(offerId) is empty.
DeleteCascades ==
  \A r \in Slots :
    LET q == reqs[r] IN
    (q.route = "delete" /\ Done(q) /\ q.status = NO_CONTENT) =>
      findByOfferId(q.offerId) = {}

\* C4 witness: a DELETE of an existing offer was answered with success after
\* a comment had been created, and the collection of comments is empty now:
\* the cascade removed it.
DeletedWithComments ==
  \E r \in Slots :
    /\ reqs[r].route = "delete"
    /\ Done(reqs[r])
    /\ reqs[r].status = NO_CONTENT
    /\ reqs[r].result # Null
    /\ nextCommentId > 1
    /\ comments = {}

\* C5: in every state of the store behind the later revision, every
\* persisted comment references an offer that is persisted.
CommentNeverOutlivesOffer ==
  revision = "later" => \A c \in comments : c.offerId \in offers

\* C6: in the later revision the handlers of GET /:offerId, PATCH /:offerId
\* and GET /:offerId/comments send their success response only for an offer
\* that exists when their service call runs.
HandlersRunOnExistingOffer ==
  [][\A r \in Slots :
       (/\ revision = "later"
        /\ reqs[r].pc = "handler"
        /\ reqs[r].route \in {"show", "update", "getComments"}
        /\ reqs'[r].pc = "done"
        /\ reqs'[r].status = OK) => reqs[r].offerId \in offers]_vars

\* C7: in the later revision an authenticated POST /offers with a valid body
\* that is answered with 201 carries the offer that was just persisted: the
\* id the response is built from is the id offerService.create returned.
CreatedResponseCarriesId ==
  \A r \in Slots :
    LET q == reqs[r] IN
    (/\ revision = "later"
     /\ q.route = "create"
     /\ q.user
     /\ q.valid
     /\ Done(q)
     /\ q.status = CREATED) =>
      /\ q.created # Null
      /\ q.result = q.created

\* C8: on PATCH /:offerId the checks run in the order authentication,
\* object-id validation, body validation, existence lookup, each at most
\* once; the first check that fails ends the request with its error (401,
\* 400, 400, 404) and nothing runs after it; the handler runs only after all
\* four passed and then calls updateById once.
UpdateChain ==
  <<PrivateRoute, ValidateObjectId, ValidateDto, DocumentExists, Handler>>

UpdateChecksInOrder ==
  \A r \in Slots :
    LET q == reqs[r] IN
    (revision = "later" /\ q.route = "update") =>
      /\ IsPrefix(q.ran, UpdateChain)
      /\ (~q.user /\ Done(q)) =>
           q.status = UNAUTHORIZED /\ Len(q.ran) = 1 /\ q.calls = << >>
      /\ (q.user /\ q.offerId = Malformed /\ Done(q)) =>
           q.status = BAD_REQUEST /\ Len(q.ran) = 2 /\ q.calls = << >>
      /\ (q.user /\ q.offerId # Malformed /\ ~q.valid /\ Done(q)) =>
           q.status = BAD_REQUEST /\ Len(q.ran) = 3 /\ q.calls = << >>
      /\ (q.user /\ q.offerId # Malformed /\ q.valid /\ Done(q)) =>
           \/ /\ q.status \in {NOT_FOUND, INTERNAL_SERVER_ERROR}
              /\ Len(q.ran) = 4
              /\ q.calls = <<"exists">>
           \/ /\ q.status \in {OK, INTERNAL_SERVER_ERROR}
              /\ Len(q.ran) = 5
              /\ q.calls = <<"exists", "updateById">>
      /\ InSeq(Handler, q.ran) => q.user /\ q.offerId # Malformed /\ q.valid
      /\ (Done(q) /\ q.status = OK) => q.ran = UpdateChain

\* C8 witness: one PATCH ran its handler and was answered with 200, another
\* was stopped by the existence lookup with 404.
UpdateAnsweredBothWays ==
  \E r, t \in Slots :
    /\ revision = "later"
    /\ reqs[r].route = "update" /\ Done(reqs[r]) /\ reqs[r].status = OK
    /\ reqs[t].route = "update" /\ Done(reqs[t])
    /\ reqs[t].status = NOT_FOUND

\* C9: in the early revision a show, delete, update or getComments request
\* for a well-formed id whose service call reported the offer absent ends
\* with status 404.
AbsentSignalsNotFound ==
  \A r \in Slots :
    LET q == reqs[r] IN
    (/\ revision = "early"
     /\ q.route \in {"show", "delete", "update", "getComments"}
     /\ q.offerId \in OfferIds
     /\ Done(q)
     /\ q.status # INTERNAL_SERVER_ERROR
     /\ q.result = Null) => q.status = NOT_FOUND

\* C10: the password field of a UserEntity holds no plaintext: it is unset
\* until setPassword is called (the constructor copies none), and afterwards
\* it is createSHA256 of the arguments of the last setPassword call, which is
\* none of the plaintext passwords.
PasswordIsHashed ==
  entity.constructed =>
    /\ getPassword \notin Passwords
    /\ entity.args = <<Null, Null>> => getPassword = Null
    /\ entity.args # <<Null, Null>> =>
         /\ getPassword = createSHA256(entity.args[1], entity.args[2])
         /\ getPassword # entity.args[1]

\* C10 witness: setPassword was called on a constructed entity.
PasswordWasSet ==
  /\ entity.constructed
  /\ entity.args = <<2, 2>>
  /\ getPassword # Null

\* C11: in both revisions a GET /offers/favorite request is dispatched to
\* findFavorite (never to show with offerId = 'favorite'), and a GET
\* /offers/premium/:city request is dispatched to findPremium.
FavoriteAndPremiumDispatched ==
  /\ (router.method = "GET" /\ router.path = <<"favorite">>) =>
       router.handler = "findFavorite"
  /\ \A city \in Cities :
       (router.method = "GET" /\ router.path = <<"premium", city>>) =>
         router.handler = "findPremium"

LastOutcome(t) == t.outcomes[Len(t.outcomes)]

\* the thunk settled in this step
Settles(t, u) == t.pc = "pending" /\ u.pc # "pending"

\* C12: across the steps of loginUser, logoutUser and fetchUserStatus (and
\* postOffer) the stored token is replaced only by a login whose request
\* succeeded, with the token of the response, and dropped only by logoutUser
\* or by a fetchUserStatus whose request failed with 401; a failed login
\* leaves token and location alone, a fetchUserStatus failing otherwise
\* leaves the token alone, and a thunk whose request failed is rejected.
TokenDiscipline ==
  [][/\ (client'.token # client.token /\ client'.token # Null) =>
          /\ client'.last = "loginUser"
          /\ Settles(client.login, client'.login)
          /\ client'.login.pc = "fulfilled"
          /\ Succeeded(LastOutcome(client'.login))
          /\ client'.token = client'.login.data
     /\ (client'.token # client.token /\ client'.token = Null) =>
          \/ client'.last = "logoutUser"
          \/ /\ client'.last = "fetchUserStatus"
             /\ Settles(client.status, client'.status)
             /\ LastOutcome(client'.status) = NoAuth
     /\ (Settles(client.login, client'.login)
           /\ ~Succeeded(LastOutcome(client'.login))) =>
          /\ client'.login.pc = "rejected"
          /\ client'.token = client.token
          /\ client'.location = client.location
     /\ (Settles(client.status, client'.status)
           /\ ~Succeeded(LastOutcome(client'.status))) =>
          /\ client'.status.pc = "rejected"
          /\ LastOutcome(client'.status) = NoAuth => client'.token = Null
          /\ LastOutcome(client'.status) # NoAuth =>
               client'.token = client.token
     /\ client'.last = "logoutUser" => client'.token = Null
    ]_vars

\* C12 witness: a login saved a token and a fetchUserStatus answered with
\* 401 dropped it again.
TokenSavedThenDropped ==
  /\ client.login.pc = "fulfilled"
  /\ client.status.pc = "rejected"
  /\ LastOutcome(client.status) = NoAuth
  /\ client.last = "fetchUserStatus"
  /\ client.token = Null

====
